---- MODULE Spec2Model ----
(***************************************************************************)
(* Model of laundry-machine-mqtt: marker geometry (get_points), luminance  *)
(* sampling (Point::sample, MyEguiApp::sample), value decoding             *)
(* (MarkerType::value, seven_segment_to_number) and publication            *)
(* (MyEguiApp::publish), together with the editor operations of            *)
(* MyEguiApp::update that change the marker list.                          *)
(*                                                                         *)
(* Luminances and thresholds (f32) are modelled as exact rationals         *)
(* <<n, d>> with d > 0 in lowest terms; positions (Pos2) as integer        *)
(* multiples of 1 / Scale, with shapes chosen so that every quotient of    *)
(* get_points is exact and no square root is needed.                       *)
(*                                                                         *)
(* Explored part of the editor: markers are added, removed, renamed,       *)
(* selected and dragged; the sliders for digits, spacing, size and the     *)
(* luminance threshold, and the webcam and MQTT settings, are left at      *)
(* their values. A run is explored for MaxFrames handler invocations with  *)
(* at most MaxMarkers markers.                                             *)
(***************************************************************************)
EXTENDS Integers, Sequences, FiniteSets, Bags, TLC

VARIABLES
    \* MyEguiApp (main.rs:28-35) and what it emits
    markers,              \* config.markers: Seq of [name, ty]
    luminance_threshold,  \* config.luminance_threshold
    editing_marker,       \* Option<usize>: 0 is None, i > 0 is Some(i - 1)
    sampled,              \* Vec<Vec<f32>>
    values,               \* Vec<Value>
    outbox,               \* bag of the messages handed to client.publish by the last handler
    lastOp,               \* the handler that ran last ("panic": the process has faulted)
    frames,               \* the number of frames in which a handler ran
    origin,               \* history: for marker i, its index in the most recent successful
                          \* sampling pass (0: not sampled yet)
    \* one call of a pure function, stepped through (config.rs)
    pc,                   \* position in the call
    samples,              \* MarkerType::value: samples
    threshold,            \* MarkerType::value: threshold
    threshold_change,     \* MarkerType::value: threshold_change
    probed,               \* the thresholds the samples were binarized at, in order
    deltas,               \* the perturbations added to threshold, in order
    segments,             \* argument of seven_segment_to_number / digits of the fold
    sampler,              \* Point::sample: self
    buffer,               \* Point::sample: pixels, width, height
    result                \* what the call returned

appVars == <<markers, luminance_threshold, editing_marker, sampled, values, outbox, lastOp,
            frames, origin>>
callVars == <<pc, samples, threshold, threshold_change, probed, deltas, segments, sampler,
             buffer, result>>
vars == <<markers, luminance_threshold, editing_marker, sampled, values, outbox, lastOp,
          frames, origin, pc, samples, threshold, threshold_change, probed, deltas, segments, sampler,
          buffer, result>>

(***************************************************************************)
(* Exact rational arithmetic standing for f32                              *)
(***************************************************************************)
Abs(n) == IF n < 0 THEN -n ELSE n

RECURSIVE GCD(_, _)
GCD(a, b) == IF b = 0 THEN a ELSE GCD(b, a % b)

Rat(n, d) ==
    LET g == GCD(Abs(n), Abs(d))
        s == IF d < 0 THEN -1 ELSE 1
    IN  <<(s * n) \div g, (s * d) \div g>>

\* a + b over the least common denominator
RAdd(a, b) ==
    LET g == GCD(a[2], b[2])
    IN  Rat(a[1] * (b[2] \div g) + b[1] * (a[2] \div g), (a[2] \div g) * b[2])

RNeg(a) == <<-a[1], a[2]>>

RSub(a, b) == RAdd(a, RNeg(b))

RMul(a, b) ==
    LET g1 == GCD(Abs(a[1]), b[2])
        g2 == GCD(Abs(b[1]), a[2])
    IN  Rat((a[1] \div g1) * (b[1] \div g2), (a[2] \div g2) * (b[2] \div g1))

RDiv(a, b) == RMul(a, Rat(b[2], b[1]))

RInt(n) == <<n, 1>>

\* a < b, by continued-fraction comparison (no cross product, so no overflow)
RECURSIVE RLess(_, _)
RLess(a, b) ==
    LET fa == a[1] \div a[2]
        fb == b[1] \div b[2]
        ra == a[1] % a[2]
        rb == b[1] % b[2]
    IN  IF fa # fb THEN fa < fb
        ELSE IF rb = 0 THEN FALSE
        ELSE IF ra = 0 THEN TRUE
        ELSE RLess(<<b[2], rb>>, <<a[2], ra>>)

RLeq(a, b) == ~RLess(b, a)

RAbs(a) == <<Abs(a[1]), a[2]>>

(***************************************************************************)
(* serde_json::Value                                                       *)
(***************************************************************************)
Null == [t |-> "Null", v |-> 0]

Bool(b) == [t |-> "Bool", v |-> IF b THEN 1 ELSE 0]

Number(n) == [t |-> "Number", v |-> n]

\* not a Value: the call did not return, the thread panicked
Panic == [t |-> "Panic", v |-> 0]

(***************************************************************************)
(* seven_segment_to_number (config.rs:180-196)                             *)
(***************************************************************************)
None == -1

\* the table with 9 drawn without its bottom segment, an encoding some displays use
seven_segment_to_number_tailless_nine(segs) ==
    CASE segs = <<TRUE, TRUE, TRUE, TRUE, TRUE, TRUE, FALSE>> -> 0
      [] segs = <<FALSE, TRUE, TRUE, FALSE, FALSE, FALSE, FALSE>> -> 1
      [] segs = <<TRUE, TRUE, FALSE, TRUE, TRUE, FALSE, TRUE>> -> 2
      [] segs = <<TRUE, TRUE, TRUE, TRUE, FALSE, FALSE, TRUE>> -> 3
      [] segs = <<FALSE, TRUE, TRUE, FALSE, FALSE, TRUE, TRUE>> -> 4
      [] segs = <<TRUE, FALSE, TRUE, TRUE, FALSE, TRUE, TRUE>> -> 5
      [] segs = <<TRUE, FALSE, TRUE, TRUE, TRUE, TRUE, TRUE>> -> 6
      [] segs = <<TRUE, TRUE, TRUE, FALSE, FALSE, FALSE, FALSE>> -> 7
      [] segs = <<TRUE, TRUE, TRUE, TRUE, TRUE, TRUE, TRUE>> -> 8
      [] segs = <<TRUE, TRUE, TRUE, FALSE, FALSE, TRUE, TRUE>> -> 9
      [] segs = <<FALSE, FALSE, FALSE, FALSE, FALSE, FALSE, FALSE>> -> 0
      [] OTHER -> None

seven_segment_to_number(segs) ==
    CASE segs = <<TRUE, TRUE, TRUE, TRUE, TRUE, TRUE, FALSE>> -> 0
      [] segs = <<FALSE, TRUE, TRUE, FALSE, FALSE, FALSE, FALSE>> -> 1
      [] segs = <<TRUE, TRUE, FALSE, TRUE, TRUE, FALSE, TRUE>> -> 2
      [] segs = <<TRUE, TRUE, TRUE, TRUE, FALSE, FALSE, TRUE>> -> 3
      [] segs = <<FALSE, TRUE, TRUE, FALSE, FALSE, TRUE, TRUE>> -> 4
      [] segs = <<TRUE, FALSE, TRUE, TRUE, FALSE, TRUE, TRUE>> -> 5
      [] segs = <<TRUE, FALSE, TRUE, TRUE, TRUE, TRUE, TRUE>> -> 6
      [] segs = <<TRUE, TRUE, TRUE, FALSE, FALSE, FALSE, FALSE>> -> 7
      [] segs = <<TRUE, TRUE, TRUE, TRUE, TRUE, TRUE, TRUE>> -> 8
      [] segs = <<TRUE, TRUE, TRUE, TRUE, FALSE, TRUE, TRUE>> -> 9
      [] segs = <<FALSE, FALSE, FALSE, FALSE, FALSE, FALSE, FALSE>> -> 0
      [] OTHER -> None

(***************************************************************************)
(* MarkerType::value (config.rs:127-171)                                   *)
(***************************************************************************)
I32Max == 2147483647

I32Min == -I32Max - 1

\* a + b in i32 without overflow checks (two's complement wrap)
WrapAdd(a, b) ==
    IF a >= 0 /\ b >= 0 /\ a > I32Max - b THEN ((a - I32Max) + (b - I32Max)) - 2
    ELSE IF a < 0 /\ b < 0 /\ a < I32Min - b THEN ((a + I32Max) + (b + I32Max)) + 2
    ELSE a + b

\* a * 10 in i32 without overflow checks
WrapMul10(a) ==
    LET a2 == WrapAdd(a, a)
        a4 == WrapAdd(a2, a2)
        a8 == WrapAdd(a4, a4)
    IN  WrapAdd(a8, a2)

\* acc * 10 + value leaves the i32 range (acc, value >= 0)
StepOverflows(acc, value) == acc > (I32Max - value) \div 10

\* one step of the fold closure |acc, value| acc * 10 + value on i32
FoldStep(acc, value) == WrapAdd(WrapMul10(acc), value)

RECURSIVE FoldFrom(_, _, _)
FoldFrom(digits, i, acc) ==
    IF i > Len(digits) THEN acc ELSE FoldFrom(digits, i + 1, FoldStep(acc, digits[i]))

\* some step of the fold overflows: with overflow checks the thread panics there
RECURSIVE OverflowsFrom(_, _, _)
OverflowsFrom(digits, i, acc) ==
    IF i > Len(digits) THEN FALSE
    ELSE StepOverflows(acc, digits[i]) \/ OverflowsFrom(digits, i + 1, acc * 10 + digits[i])

\* digits.iter().fold(0i32, ...).into(): the outcomes the build can produce
fold_digits(digits) ==
    IF OverflowsFrom(digits, 1, 0)
    THEN {Panic, Number(FoldFrom(digits, 1, 0))}
    ELSE {Number(FoldFrom(digits, 1, 0))}

Min(a, b) == IF a < b THEN a ELSE b

\* samples.chunks(7): the last chunk may be shorter
chunks(s) ==
    << >> \o [i \in 1..((Len(s) + 6) \div 7) |-> SubSeq(s, 7 * (i - 1) + 1, Min(7 * i, Len(s)))]

\* segment.iter().map(|&value| value > threshold)
binarize(segment, thr) == << >> \o [i \in 1..Len(segment) |-> RLess(thr, segment[i])]

\* the digit of every chunk at this threshold (None where the chunk matches nothing)
chunk_digits(s, thr) ==
    LET c == chunks(s)
    IN  << >> \o [i \in 1..Len(c) |-> seven_segment_to_number(binarize(c[i], thr))]

\* collect::<Option<Vec<_>>>() is Some
all_match(s, thr) ==
    LET digits == chunk_digits(s, thr)
    IN  \A i \in 1..Len(digits) : digits[i] # None

InitialChange == <<1, 100>>

\* threshold_change *= -1.5
\* the perturbation flipping sign at constant magnitude
next_change_constant(change) == RMul(change, <<-1, 1>>)

\* the perturbation flipping sign and halving
next_change_halving(change) == RMul(change, <<-1, 2>>)

next_change(change) == RMul(change, <<-3, 2>>)

\* threshold += threshold_change
next_threshold(thr, change) == RAdd(thr, change)

\* (0.0..=1.0).contains(&threshold)
\* the range test with its lower bound forgotten
in_range_upper_only(thr) == RLeq(thr, RInt(1))

in_range(thr) == RLeq(<<0, 1>>, thr) /\ RLeq(thr, <<1, 1>>)

\* the loop of the SevenSegment arm
RECURSIVE search(_, _, _)
search(s, thr, change) ==
    IF all_match(s, thr) THEN fold_digits(chunk_digits(s, thr))
    ELSE IF ~in_range(next_threshold(thr, change)) THEN {Null}
    ELSE search(s, next_threshold(thr, change), next_change(change))

\* MarkerType::value: the set of outcomes (one Value, or also Panic on i32 overflow)
value(ty, s, thr) ==
    IF ty.kind = "Point"
    THEN IF Len(s) = 0 THEN {Null} ELSE {Bool(RLess(thr, s[1]))}
    ELSE search(s, thr, InitialChange)

(***************************************************************************)
(* Geometry: egui Pos2 / Vec2 and the f32 shape parameters in fixed point, *)
(* as integer multiples of 1 / Scale; get_points (config.rs:82-125).       *)
(* Only shapes whose points are exact in this unit are admitted (Exact).   *)
(***************************************************************************)
Scale == 16 * 3150

VAdd(p, q) == <<p[1] + q[1], p[2] + q[2]>>

VSub(p, q) == <<p[1] - q[1], p[2] - q[2]>>

\* p * (num / den)
VScale(p, num, den) == <<(p[1] * num) \div den, (p[2] * num) \div den>>

Sign(n) == IF n > 0 THEN 1 ELSE IF n < 0 THEN -1 ELSE 0

\* the vector has a length the model represents: one component is zero
AxisAligned(p) == p[1] = 0 \/ p[2] = 0

\* Vec2::length of an axis-aligned vector
VLength(p) == Abs(p[1]) + Abs(p[2])

\* Vec2::normalized of an axis-aligned vector, as a vector of -1, 0, 1 (the zero
\* vector is returned as it is)
VNormalized(p) == <<Sign(p[1]), Sign(p[2])>>

PointMarker(pos, size) == [kind |-> "Point", pos |-> pos, size |-> size]

SevenSegmentMarker(start, end, bottom, digits, spacing, size) ==
    [kind |-> "SevenSegment", start |-> start, end |-> end, bottom |-> bottom,
     digits |-> digits, spacing |-> spacing, size |-> size]

\* (length - spacing * (digits as f32 - 1.)) / digits as f32, times two
segment_length_twice(ty) ==
    (2 * (VLength(VSub(ty.end, ty.start)) - ty.spacing * (ty.digits - 1))) \div ty.digits

\* every quotient of get_points is exact in units of 1 / Scale
Exact(ty) ==
    ty.kind = "SevenSegment" =>
        /\ AxisAligned(VSub(ty.end, ty.start))
        /\ ty.digits > 0 =>
              (VLength(VSub(ty.end, ty.start)) - ty.spacing * (ty.digits - 1))
                  % ty.digits = 0
        /\ ty.digits > 0 => segment_length_twice(ty) % 2 = 0
        /\ (ty.bottom[1] - ty.start[1]) % 2 = 0
        /\ (ty.bottom[2] - ty.start[2]) % 2 = 0

\* the cell with its two left segments listed in the order [.., f, e, ..]
cell_points_left_swapped(ty, n) ==
    LET direction == VNormalized(VSub(ty.end, ty.start))
        tangent == VSub(ty.bottom, ty.start)
        segment_length == segment_length_twice(ty) \div 2
        start == VAdd(ty.start, VScale(direction, n * (segment_length + ty.spacing), 1))
        center == VAdd(start, VScale(direction, segment_length, 2))
        end == VAdd(start, VScale(direction, segment_length, 1))
        half == VScale(tangent, 1, 2)
        a == VSub(center, tangent)
        b == VSub(end, half)
        c == VAdd(end, half)
        d == VAdd(center, tangent)
        e == VAdd(start, half)
        f == VSub(start, half)
        g == center
    IN  <<a, b, c, d, f, e, g>>

\* the seven positions [a, b, c, d, e, f, g] of digit cell n (0-based)
cell_points(ty, n) ==
    LET direction == VNormalized(VSub(ty.end, ty.start))
        tangent == VSub(ty.bottom, ty.start)
        segment_length == segment_length_twice(ty) \div 2
        start == VAdd(ty.start, VScale(direction, n * (segment_length + ty.spacing), 1))
        center == VAdd(start, VScale(direction, segment_length, 2))
        end == VAdd(start, VScale(direction, segment_length, 1))
        half == VScale(tangent, 1, 2)
        a == VSub(center, tangent)
        b == VSub(end, half)
        c == VAdd(end, half)
        d == VAdd(center, tangent)
        e == VAdd(start, half)
        f == VSub(start, half)
        g == center
    IN  <<a, b, c, d, e, f, g>>

\* (0..digits).flat_map(...): the cells from n on, concatenated
RECURSIVE cells_from(_, _)
cells_from(ty, n) ==
    IF n >= ty.digits THEN << >> ELSE cell_points(ty, n) \o cells_from(ty, n + 1)

with_size(positions, size) ==
    << >> \o [i \in 1..Len(positions) |-> [pos |-> positions[i], size |-> size]]

get_points(ty) ==
    IF ty.kind = "Point"
    THEN <<[pos |-> ty.pos, size |-> ty.size]>>
    ELSE with_size(cells_from(ty, 0), ty.size)

(***************************************************************************)
(* Point::sample (config.rs:72-79) and the luminance of a pixel            *)
(* (main.rs:308-316)                                                       *)
(***************************************************************************)
\* (pos * dimension as f32).round() as usize: half away from zero, negatives saturate to 0
round_to_usize(pos, dimension) ==
    IF pos <= 0 THEN 0 ELSE (2 * pos * dimension + Scale) \div (2 * Scale)

\* y * width + x
pixel_index(point, width, height) ==
    round_to_usize(point.pos[2], height) * width + round_to_usize(point.pos[1], width)

\* 0.2126 * r + 0.7152 * g + 0.0722 * b over channels scaled to [0, 1]
luminance(color) ==
    Rat(2126 * color[1] + 7152 * color[2] + 722 * color[3], 2550000)

(***************************************************************************)
(* MyEguiApp::publish (main.rs:338-403): the messages of one publish pass  *)
(***************************************************************************)
Message(topic, payload) == [topic |-> topic, payload |-> payload]

\* serde_json::to_string_pretty of a Value
to_string_pretty(val) ==
    CASE val.t = "Null" -> "null"
      [] val.t = "Bool" -> IF val.v = 1 THEN "true" ELSE "false"
      [] val.t = "Number" -> ToString(val.v)

\* markers.iter().zip(&self.values): as long as the shorter of the two
zipped(ms, vals) == 1..Min(Len(ms), Len(vals))

\* .collect::<HashMap<&str, &Value>>(): the keys, and for a key its last pair
map_keys(ms, vals) == {ms[i].name : i \in zipped(ms, vals)}

map_get(ms, vals, name) ==
    vals[CHOOSE i \in zipped(ms, vals) :
            /\ ms[i].name = name
            /\ \A j \in zipped(ms, vals) : ms[j].name = name => j <= i]

\* Some(Value::Number(n)) with n.as_u64() being Some
is_u64(ms, vals, name) ==
    /\ name \in map_keys(ms, vals)
    /\ map_get(ms, vals, name).t = "Number"
    /\ map_get(ms, vals, name).v >= 0

\* both lookups succeeded as non-negative integers: the aggregate is published
aggregates(ms, vals) == is_u64(ms, vals, "hour") /\ is_u64(ms, vals, "minute")

\* the aggregate carrying the minutes instead of the seconds
time_remaining_minutes(ms, vals) ==
    LET minutes == map_get(ms, vals, "hour").v * 60 + map_get(ms, vals, "minute").v
    IN  Message("laundry-machine/time-remaining", ToString(minutes))

time_remaining(ms, vals) ==
    LET minutes == map_get(ms, vals, "hour").v * 60 + map_get(ms, vals, "minute").v
        seconds == minutes * 60
    IN  Message("laundry-machine/time-remaining", ToString(seconds))

\* what is left in the map after values.remove("hour") and values.remove("minute")
remaining_keys(ms, vals) == map_keys(ms, vals) \ {"hour", "minute"}

marker_message(ms, vals, name) ==
    Message("laundry-machine/" \o name, to_string_pretty(map_get(ms, vals, name)))

\* every client.publish call of the pass, as a bag (HashMap iteration order is unspecified)
publish(ms, vals) ==
    (IF aggregates(ms, vals) THEN SetToBag({time_remaining(ms, vals)}) ELSE EmptyBag)
    (+) SetToBag({marker_message(ms, vals, name) : name \in remaining_keys(ms, vals)})

(***************************************************************************)
(* The inputs of the application: the webcam image and the stored config   *)
(***************************************************************************)
\* the segments (a = 1 .. g = 7) a seven-segment display lights for a digit
LitSegments(d) ==
    CASE d = 0 -> {1, 2, 3, 4, 5, 6}
      [] d = 1 -> {2, 3}
      [] d = 2 -> {1, 2, 4, 5, 7}
      [] d = 3 -> {1, 2, 3, 4, 7}
      [] d = 4 -> {2, 3, 6, 7}
      [] d = 5 -> {1, 3, 4, 6, 7}
      [] d = 6 -> {1, 3, 4, 5, 6, 7}
      [] d = 7 -> {1, 2, 3}
      [] d = 8 -> {1, 2, 3, 4, 5, 6, 7}
      [] d = 9 -> {1, 2, 3, 4, 6, 7}

ImageWidth == 16

ImageHeight == 8

LitColor == <<204, 204, 204>>

UnlitColor == <<51, 51, 51>>

\* the pixel <<column, row>> of segment seg in a display cell whose left column is col
SegmentPixel(col, seg) ==
    CASE seg = 1 -> <<col + 1, 2>>
      [] seg = 2 -> <<col + 2, 3>>
      [] seg = 3 -> <<col + 2, 5>>
      [] seg = 4 -> <<col + 1, 6>>
      [] seg = 5 -> <<col, 5>>
      [] seg = 6 -> <<col, 3>>
      [] seg = 7 -> <<col + 1, 4>>

\* a photo of the panel: an hour cell at columns 1-3, minute cells at columns 5-7 and
\* 9-11, an indicator lamp at <<8, 4>>; each cell lights the given set of segments.
\* The pixel buffer is kept as the set of its lit pixels <<column, row>>
PanelImage(hour, tens, ones, lamp) ==
    LET lit == {SegmentPixel(1, seg) : seg \in hour}
               \cup {SegmentPixel(5, seg) : seg \in tens}
               \cup {SegmentPixel(9, seg) : seg \in ones}
               \cup (IF lamp THEN {<<8, 4>>} ELSE {})
    IN  [width |-> ImageWidth, height |-> ImageHeight, lit |-> lit]

\* image.pixels.len(): the buffer holds width * height pixels, row after row
pixels_len(image) == image.width * image.height

\* image.pixels[index], for an index inside the buffer
pixel(image, index) ==
    IF <<index % image.width, index \div image.width>> \in image.lit
    THEN LitColor ELSE UnlitColor

\* ImagePoll::Ready images: the panel showing 1:30 with the lamp on, and a frame where
\* the hour cell shows only its top segment
Images ==
    {PanelImage(LitSegments(1), LitSegments(3), LitSegments(0), TRUE),
     PanelImage({1}, LitSegments(3), LitSegments(0), FALSE)}

\* Marker::new: the name is String::default()
new_marker(ty) == [name |-> "", ty |-> ty]

\* "Add point marker" (main.rs:245-250)
DefaultPoint == PointMarker(<<Scale \div 2, Scale \div 2>>, Scale \div 100)

\* "Add seven segment marker" (main.rs:252-263)
DefaultSevenSegment ==
    SevenSegmentMarker(<<(4 * Scale) \div 10, (4 * Scale) \div 10>>,
                       <<(4 * Scale) \div 10, (6 * Scale) \div 10>>,
                       <<(4 * Scale) \div 10, (5 * Scale) \div 10>>,
                       3, (5 * Scale) \div 1000, Scale \div 100)

\* a config saved by an earlier run: markers laid over the hour and minute cells
HourMarker ==
    [name |-> "hour",
     ty |-> SevenSegmentMarker(<<Scale \div 16, Scale \div 2>>,
                               <<(3 * Scale) \div 16, Scale \div 2>>,
                               <<Scale \div 16, (3 * Scale) \div 4>>,
                               1, (5 * Scale) \div 1000, Scale \div 100)]

MinuteMarker ==
    [name |-> "minute",
     ty |-> SevenSegmentMarker(<<(5 * Scale) \div 16, Scale \div 2>>,
                               <<(11 * Scale) \div 16, Scale \div 2>>,
                               <<(5 * Scale) \div 16, (3 * Scale) \div 4>>,
                               2, Scale \div 10, Scale \div 100)]

\* eframe::get_value(storage, "config").unwrap_or_default(): nothing stored, or a stored list
StoredMarkers == {<< >>, <<HourMarker, MinuteMarker>>}

\* default_luminance_threshold
DefaultThreshold == <<2, 5>>

\* the names the text field of a marker is set to
Names == {"", "hour", "minute"}

\* drag_delta() / rect size: the pointer movements drawn
DragDeltas == {<<0, Scale \div 2>>}

MaxMarkers == 2

MaxFrames == 5

(***************************************************************************)
(* MyEguiApp: construction (main.rs:38-50) and the handlers of update      *)
(* (main.rs:54-287), sample (main.rs:295-336) and publish                  *)
(***************************************************************************)
\* no call of Point::sample is in progress
NoPoint == [pos |-> <<0, 0>>, size |-> 0]

NoImage == [pixels |-> << >>, width |-> 0, height |-> 0]

CallIdle ==
    /\ pc = "idle"
    /\ samples = << >>
    /\ threshold = DefaultThreshold
    /\ threshold_change = InitialChange
    /\ probed = << >>
    /\ deltas = << >>
    /\ segments = << >>
    /\ sampler = NoPoint
    /\ buffer = NoImage
    /\ result = Null

Init ==
    /\ markers \in StoredMarkers
    /\ luminance_threshold = DefaultThreshold
    /\ editing_marker = 0
    /\ sampled = << >>
    /\ values = << >>
    /\ outbox = EmptyBag
    /\ lastOp = "idle"
    /\ frames = 0
    /\ origin = [i \in 1..Len(markers) |-> 0]
    /\ CallIdle

\* the process has not faulted, and the run is within the frames explored
Running ==
    /\ lastOp # "panic"
    /\ frames < MaxFrames
    /\ frames' = frames + 1

\* an editor handler ran: nothing is published
Edited ==
    /\ outbox' = EmptyBag
    /\ lastOp' = "idle"
    /\ UNCHANGED <<luminance_threshold, sampled, values>>
    /\ UNCHANGED callVars

\* "Add point marker" clicked
AddPointMarker ==
    /\ Running
    /\ Len(markers) < MaxMarkers
    /\ markers' = Append(markers, new_marker(DefaultPoint))
    /\ origin' = Append(origin, 0)
    /\ UNCHANGED editing_marker
    /\ Edited

\* "Add seven segment marker" clicked
AddSevenSegmentMarker ==
    /\ Running
    /\ Len(markers) < MaxMarkers
    /\ markers' = Append(markers, new_marker(DefaultSevenSegment))
    /\ origin' = Append(origin, 0)
    /\ UNCHANGED editing_marker
    /\ Edited

\* "Remove" clicked on marker idx: self.config.markers.remove(remove)
RemoveMarker ==
    /\ Running
    /\ \E idx \in 1..Len(markers) :
          /\ markers' = [i \in 1..(Len(markers) - 1) |->
                           IF i < idx THEN markers[i] ELSE markers[i + 1]]
          /\ origin' = [i \in 1..(Len(markers) - 1) |->
                          IF i < idx THEN origin[i] ELSE origin[i + 1]]
    /\ UNCHANGED editing_marker
    /\ Edited

\* the name field of marker idx edited
RenameMarker ==
    /\ Running
    /\ \E idx \in 1..Len(markers), name \in Names :
          /\ name # markers[idx].name
          /\ markers' = [markers EXCEPT ![idx].name = name]
    /\ UNCHANGED <<editing_marker, origin>>
    /\ Edited

\* "Edit" clicked on marker idx
EditMarker ==
    /\ Running
    /\ \E idx \in 1..Len(markers) :
          /\ editing_marker # idx
          /\ editing_marker' = idx
    /\ UNCHANGED <<markers, origin>>
    /\ Edited

\* the positions the model keeps: inside the unit square
InUnitSquare(p) == p[1] \in 0..Scale /\ p[2] \in 0..Scale

\* min_by over [start, end, bottom] returns the first of the closest handles, so a
\* handle can be the one dragged iff no earlier handle lies at the same place
closest_handles(ty) ==
    {"start"}
    \cup (IF ty.end # ty.start THEN {"end"} ELSE {})
    \cup (IF ty.bottom # ty.start /\ ty.bottom # ty.end THEN {"bottom"} ELSE {})

dragged(ty, handle, delta) ==
    CASE ty.kind = "Point" -> [ty EXCEPT !.pos = VAdd(ty.pos, delta)]
      [] ty.kind = "SevenSegment" /\ handle = "start" ->
            [ty EXCEPT !.start = VAdd(ty.start, delta)]
      [] ty.kind = "SevenSegment" /\ handle = "end" ->
            [ty EXCEPT !.end = VAdd(ty.end, delta)]
      [] ty.kind = "SevenSegment" /\ handle = "bottom" ->
            [ty EXCEPT !.bottom = VAdd(ty.bottom, delta)]

\* the shapes the model keeps: handles inside the unit square, geometry exact
Representable(ty) ==
    /\ Exact(ty)
    /\ IF ty.kind = "Point" THEN InUnitSquare(ty.pos)
       ELSE InUnitSquare(ty.start) /\ InUnitSquare(ty.end) /\ InUnitSquare(ty.bottom)

\* the image dragged while a marker is being edited (main.rs:63-90)
DragMarker ==
    /\ Running
    /\ editing_marker \in 1..Len(markers)
    /\ \E delta \in DragDeltas, handle \in {"start", "end", "bottom"} :
          LET ty == markers[editing_marker].ty
          IN  /\ ty.kind = "Point" => handle = "start"
              /\ ty.kind = "SevenSegment" => handle \in closest_handles(ty)
              /\ Representable(dragged(ty, handle, delta))
              /\ markers' = [markers EXCEPT ![editing_marker].ty = dragged(ty, handle, delta)]
    /\ UNCHANGED <<editing_marker, origin>>
    /\ Edited

\* the pixel indices of the sample points of one marker
marker_indices(ty, image) ==
    LET points == get_points(ty)
    IN  << >> \o [k \in 1..Len(points) |-> pixel_index(points[k], image.width, image.height)]

\* the pixel indices of all markers, in marker order
all_indices(ms, image) == << >> \o [i \in 1..Len(ms) |-> marker_indices(ms[i].ty, image)]

\* some sample point of some marker indexes outside image.pixels
sample_panics(indices, image) ==
    \E i \in 1..Len(indices) :
        \E k \in 1..Len(indices[i]) : indices[i][k] >= pixels_len(image)

\* the new self.sampled (main.rs:298-320)
sample_all(indices, image) ==
    << >> \o [i \in 1..Len(indices) |->
        << >> \o [k \in 1..Len(indices[i]) |-> luminance(pixel(image, indices[i][k]))]]

\* the outcomes of the map that builds self.values (main.rs:322-332)
value_outcomes(ms, smp, thr) ==
    LET outcomes == << >> \o [i \in 1..Len(ms) |-> value(ms[i].ty, smp[i], thr)]
    IN  {vs \in [1..Len(ms) -> UNION {outcomes[i] : i \in 1..Len(ms)}] :
            \A i \in 1..Len(ms) : vs[i] \in outcomes[i]}

\* "Sample" clicked or the refresh timer elapsed, with the image loaded
SampleReady ==
    /\ Running
    /\ \E image \in Images :
          LET indices == all_indices(markers, image)
          IN
          IF sample_panics(indices, image)
          THEN /\ lastOp' = "panic"
               /\ outbox' = EmptyBag
               /\ UNCHANGED <<sampled, values, origin>>
          ELSE /\ sampled' = sample_all(indices, image)
               /\ \E vs \in value_outcomes(markers, sampled', luminance_threshold) :
                     IF \E i \in 1..Len(vs) : vs[i] = Panic
                     THEN /\ lastOp' = "panic"
                          /\ outbox' = EmptyBag
                          /\ UNCHANGED <<values, origin>>
                     ELSE /\ values' = vs
                          /\ origin' = [i \in 1..Len(markers) |-> i]
                          /\ outbox' = publish(markers, vs)
                          /\ lastOp' = "sample"
    /\ UNCHANGED <<markers, luminance_threshold, editing_marker>>
    /\ UNCHANGED callVars

\* the same with try_load_image not returning ImagePoll::Ready: nothing is done
SampleNotReady ==
    /\ Running
    /\ lastOp' = "idle"
    /\ outbox' = EmptyBag
    /\ UNCHANGED <<markers, luminance_threshold, editing_marker, sampled, values, origin>>
    /\ UNCHANGED callVars

\* "Publish" clicked
Publish ==
    /\ Running
    /\ outbox' = publish(markers, values)
    /\ lastOp' = "publish"
    /\ UNCHANGED <<markers, luminance_threshold, editing_marker, sampled, values, origin>>
    /\ UNCHANGED callVars

Next ==
    \/ AddPointMarker
    \/ AddSevenSegmentMarker
    \/ RemoveMarker
    \/ RenameMarker
    \/ EditMarker
    \/ DragMarker
    \/ SampleReady
    \/ SampleNotReady
    \/ Publish

Spec == Init /\ [][Next]_vars

(***************************************************************************)
(* Calls of the pure functions of config.rs on drawn arguments             *)
(***************************************************************************)
AppIdle ==
    /\ markers = << >>
    /\ luminance_threshold = DefaultThreshold
    /\ editing_marker = 0
    /\ sampled = << >>
    /\ values = << >>
    /\ outbox = EmptyBag
    /\ lastOp = "idle"
    /\ frames = 0
    /\ origin = << >>

\* every slice of booleans of length 0 .. 8
BoolSlices == UNION {[1..n -> BOOLEAN] : n \in 0..8}

\* seven_segment_to_number(segments)
TableInit ==
    /\ AppIdle
    /\ pc = "call"
    /\ segments \in BoolSlices
    /\ samples = << >>
    /\ threshold = DefaultThreshold
    /\ threshold_change = InitialChange
    /\ probed = << >>
    /\ deltas = << >>
    /\ sampler = NoPoint
    /\ buffer = NoImage
    /\ result = Null

TableCall ==
    /\ pc = "call"
    /\ result' = seven_segment_to_number(segments)
    /\ pc' = "done"
    /\ UNCHANGED <<samples, threshold, threshold_change, probed, deltas, segments, sampler, buffer>>
    /\ UNCHANGED appVars

TableNext == TableCall

SpecTable == TableInit /\ [][TableNext]_vars

\* the luminances of a lit and of an unlit segment in the drawn sample sets
Bright == <<4, 5>>

Dark == <<1, 5>>

\* the samples of one cell showing digit d, in the order [a, b, c, d, e, f, g]
CellSamples(d) == [seg \in 1..7 |-> IF seg \in LitSegments(d) THEN Bright ELSE Dark]

RECURSIVE Flatten(_)
Flatten(cells) == IF cells = << >> THEN << >> ELSE Head(cells) \o Flatten(Tail(cells))

\* the samples of a row of cells showing the digits ds
RowSamples(ds) == Flatten([i \in 1..Len(ds) |-> CellSamples(ds[i])])

\* the digit counts the editor allows: clamp_range(1..=10)
MinDigits == 1

MaxDigits == 10

\* the digits shown in a cell of the drawn rows
ShownDigits == {0, 9}

\* MarkerType::value of a SevenSegment marker over a row showing the digits in segments
CombineInit ==
    /\ AppIdle
    /\ pc = "call"
    /\ segments \in UNION {[1..n -> ShownDigits] : n \in MinDigits..MaxDigits}
    /\ samples = RowSamples(segments)
    /\ threshold = DefaultThreshold
    /\ threshold_change = InitialChange
    /\ probed = << >>
    /\ deltas = << >>
    /\ sampler = NoPoint
    /\ buffer = NoImage
    /\ result = Null

CombineCall ==
    /\ pc = "call"
    /\ result' \in value(DefaultSevenSegment, samples, threshold)
    /\ pc' = "done"
    /\ UNCHANGED <<samples, threshold, threshold_change, probed, deltas, segments, sampler, buffer>>
    /\ UNCHANGED appVars

CombineNext == CombineCall

SpecCombine == CombineInit /\ [][CombineNext]_vars

\* a segment that glows faintly: brighter than 0.4, darker than 0.41
Dim == <<81, 200>>

\* a cell showing digit d in which the unlit segment seg glows faintly
NoisyCell(d, seg) == [CellSamples(d) EXCEPT ![seg] = Dim]

NoisyCells == {NoisyCell(d, seg) : d \in 0..9, seg \in 1..7}

\* the cells rows are drawn from: a crisp 1 and 8, a noisy 1, and a cell with only
\* its top segment lit
RowCells == {CellSamples(1), CellSamples(8), NoisyCell(1, 4), [seg \in 1..7 |-> IF seg = 1 THEN Bright ELSE Dark]}

MaxCells == 2

\* the sample sets drawn: no samples, a single cell of every on/off pattern, the noisy
\* cells, rows of cells, and sets whose length is no multiple of 7
DrawnSamples ==
    LET single == [1..7 -> {Dark, Bright}] \cup NoisyCells
        rows == UNION {{Flatten(r) : r \in [1..n -> RowCells]} : n \in 2..MaxCells}
        partial == {<<Bright>>} \cup {c \o <<Dark>> : c \in RowCells}
    IN  {<< >>} \cup single \cup rows \cup partial

\* the configured thresholds drawn, all in [0, 1]
DrawnThresholds == {<<0, 1>>, <<1, 1000>>, <<1, 5>>, <<2, 5>>, <<3, 5>>, <<999, 1000>>, <<1, 1>>}

\* MarkerType::value on a SevenSegment marker, one loop step at a time; the call
\* passes config.luminance_threshold as the threshold argument (main.rs:330)
ValueInit ==
    /\ markers = << >>
    /\ luminance_threshold \in DrawnThresholds
    /\ editing_marker = 0
    /\ sampled = << >>
    /\ values = << >>
    /\ outbox = EmptyBag
    /\ lastOp = "idle"
    /\ frames = 0
    /\ origin = << >>
    /\ pc = "probe"
    /\ samples \in DrawnSamples
    /\ threshold = luminance_threshold
    /\ threshold_change = InitialChange
    /\ probed = << >>
    /\ deltas = << >>
    /\ segments = << >>
    /\ sampler = NoPoint
    /\ buffer = NoImage
    /\ result = Null

\* config.rs:140-160: binarize and match every chunk at the current threshold
Probe ==
    /\ pc = "probe"
    /\ probed' = Append(probed, threshold)
    /\ IF all_match(samples, threshold)
       THEN /\ result' \in fold_digits(chunk_digits(samples, threshold))
            /\ pc' = "done"
       ELSE /\ pc' = "perturb"
            /\ UNCHANGED result
    /\ UNCHANGED <<samples, threshold, threshold_change, deltas, segments, sampler, buffer>>
    /\ UNCHANGED appVars

\* config.rs:162-167: move the threshold, then leave the loop if it left [0, 1]
Perturb ==
    /\ pc = "perturb"
    /\ threshold' = next_threshold(threshold, threshold_change)
    /\ threshold_change' = next_change(threshold_change)
    /\ deltas' = Append(deltas, threshold_change)
    /\ IF in_range(threshold')
       THEN /\ pc' = "probe"
            /\ UNCHANGED result
       ELSE /\ pc' = "done"
            /\ result' = Null
    /\ UNCHANGED <<samples, probed, segments, sampler, buffer>>
    /\ UNCHANGED appVars

ValueNext == Probe \/ Perturb

SpecValue == ValueInit /\ [][ValueNext]_vars

\* the sample sets of the fair runs: no samples, crisp cells, the noisy 1 and 8
\* cells, a cell no threshold decodes, and sets whose length is no multiple of 7
SearchSamples ==
    {<< >>, <<Bright>>} \cup RowCells
        \cup {NoisyCell(d, seg) : d \in {1, 8}, seg \in 1..7}
        \cup {c \o <<Dark>> : c \in RowCells}

SearchInit == ValueInit /\ samples \in SearchSamples

\* the loop is sequential code: a step that can be taken is taken
SpecSearch == SearchInit /\ [][ValueNext]_vars /\ WF_vars(ValueNext)

\* a value of the pixel type T read from the buffer
Pixel(v) == [t |-> "Pixel", v |-> v]

\* Point::sample (config.rs:73-78): the pixel read, or the fault of the
\* bounds-checked slice index
sample(pt, pixels, width, height) ==
    LET index == pixel_index(pt, width, height)
    IN  IF index >= Len(pixels) THEN Panic ELSE Pixel(pixels[index + 1])

\* the image sizes drawn: 1 .. MaxWidth by 1 .. MaxHeight
MaxWidth == 4

MaxHeight == 4

\* a buffer of width * height pixels, row after row, whose pixel at index k holds k
IndexBuffer(w, h) == [pixels |-> [k \in 1..(w * h) |-> k - 1], width |-> w, height |-> h]

\* the coordinates drawn, all in [0, 1]: the ends, the middle, and their neighbours
UnitCoordinates ==
    {0, 1, Scale \div 4, Scale \div 2 - 1, Scale \div 2, (3 * Scale) \div 4, Scale - 1, Scale}

\* Point::sample on a point of the unit square and a buffer of every drawn size
SampleInit ==
    /\ AppIdle
    /\ pc = "call"
    /\ sampler \in {[pos |-> <<x, y>>, size |-> Scale \div 100] :
                        x \in UnitCoordinates, y \in UnitCoordinates}
    /\ buffer \in {IndexBuffer(w, h) : w \in 1..MaxWidth, h \in 1..MaxHeight}
    /\ samples = << >>
    /\ threshold = DefaultThreshold
    /\ threshold_change = InitialChange
    /\ probed = << >>
    /\ deltas = << >>
    /\ segments = << >>
    /\ result = Null

SampleCall ==
    /\ pc = "call"
    /\ result' = sample(sampler, buffer.pixels, buffer.width, buffer.height)
    /\ pc' = "done"
    /\ UNCHANGED <<samples, threshold, threshold_change, probed, deltas, segments, sampler, buffer>>
    /\ UNCHANGED appVars

SampleNext == SampleCall

SpecSample == SampleInit /\ [][SampleNext]_vars

\* ---------------------------------------------------------------------------
\* Properties
\* ---------------------------------------------------------------------------

\* the lit segments of a slice of booleans, a = 1 .. g = 7
Lit(segs) == {i \in 1..Len(segs) : segs[i]}

\* the digit a slice shows under the standard seven-segment encodings, with the
\* blank cell reading as 0; None for every other slice
StandardDigit(segs) ==
    IF Len(segs) # 7 THEN None
    ELSE IF Lit(segs) = {} THEN 0
    ELSE IF \E d \in 0..9 : LitSegments(d) = Lit(segs)
         THEN CHOOSE d \in 0..9 : LitSegments(d) = Lit(segs)
         ELSE None

\* C8: seven_segment_to_number maps exactly eleven 7-element patterns to a digit,
\* the standard encodings of 0..9 plus the all-off pattern (read as 0), and every
\* other slice, of any length, to None.
TableIsStandard ==
    /\ pc = "done" => result = StandardDigit(segments)
    /\ Cardinality({p \in [1..7 -> BOOLEAN] : seven_segment_to_number(p) # None}) = 11
    /\ \A d \in 0..9 :
          Cardinality({p \in [1..7 -> BOOLEAN] : seven_segment_to_number(p) = d})
            = IF d = 0 THEN 2 ELSE 1

\* the lookup has answered 0 for the blank cell
TableBlankIsZero ==
    /\ pc = "done"
    /\ segments = [i \in 1..7 |-> FALSE]
    /\ result = 0

\* membership of a rational in the closed interval [0, 1]
InUnit(t) == 0 <= t[1] /\ t[1] <= t[2]

\* the threshold tried by the most recent probe
LastProbed == probed[Len(probed)]

\* C5: the threshold search always terminates, whatever the samples and whatever
\* configured threshold in [0, 1] it starts from (0 and 1 and their neighbours
\* included): it reaches its return after at most 13 probes.
SearchTerminates == <>(pc = "done") /\ [](Len(probed) <= 13)

\* a search that ran the longest possible course and gave up
SearchExhausted ==
    /\ pc = "done"
    /\ result = Null
    /\ Len(probed) = 13

\* C6: the probed thresholds start at the configured one, each later one is the
\* previous one plus the perturbation of that retry, and all lie in [0, 1]; no
\* probe before the last matched; the call returns a number exactly when the last
\* probe matched every cell (the number decoded at that threshold) and returns
\* Null exactly when no probe matched and the next threshold left [0, 1].
ProbeSequence ==
    /\ \A i \in 1..Len(probed) : InUnit(probed[i])
    /\ Len(probed) >= 1 => probed[1] = luminance_threshold
    /\ \A i \in 1..(Len(probed) - 1) :
          /\ ~all_match(samples, probed[i])
          /\ i <= Len(deltas)
          /\ probed[i + 1] = RAdd(probed[i], deltas[i])
    /\ pc = "done" =>
          /\ Len(probed) >= 1
          /\ result.t \in {"Number", "Null", "Panic"}
          /\ result.t = "Null" <=> ~all_match(samples, LastProbed)
          /\ result.t # "Null" =>
                result \in fold_digits(chunk_digits(samples, LastProbed))
          /\ result.t = "Null" =>
                /\ Len(deltas) = Len(probed)
                /\ ~InUnit(RAdd(LastProbed, deltas[Len(deltas)]))
                /\ threshold = RAdd(LastProbed, deltas[Len(deltas)])

\* a noisy 1 that fails at the configured threshold 0.4 and reads 1 at 0.41
RetrySucceeded ==
    /\ pc = "done"
    /\ samples = NoisyCell(1, 4)
    /\ probed = <<(<<2, 5>>), (<<41, 100>>)>>
    /\ result = Number(1)

\* the perturbation history follows the geometric rule with ratio num/den in
\* magnitude: it starts at +0.01 and flips sign on every retry
DeltaRule(num, den) ==
    /\ Len(deltas) >= 1 => deltas[1] = <<1, 100>>
    /\ \A i \in 1..(Len(deltas) - 1) :
          /\ Sign(deltas[i + 1][1]) = -Sign(deltas[i][1])
          /\ RAbs(deltas[i + 1]) = RMul(RAbs(deltas[i]), <<num, den>>)

\* C10 as stated: the perturbation starts at 0.01, alternates in sign on every
\* retry and shrinks in magnitude.
DeltaShrinks ==
    /\ Len(deltas) >= 1 => deltas[1] = <<1, 100>>
    /\ \A i \in 1..(Len(deltas) - 1) :
          /\ Sign(deltas[i + 1][1]) = -Sign(deltas[i][1])
          /\ RLess(RAbs(deltas[i + 1]), RAbs(deltas[i]))

\* C10 amended: the perturbation starts at 0.01, alternates in sign on every retry
\* and grows in magnitude by the factor 1.5 on every retry.
DeltaGrows == DeltaRule(3, 2)

\* a search that has perturbed the threshold three times: +0.01, -0.015, +0.0225
ThreeRetries ==
    /\ Len(deltas) = 3
    /\ deltas[3] = <<9, 400>>

RECURSIVE Pow10(_)
Pow10(k) == IF k = 0 THEN 1 ELSE 10 * Pow10(k - 1)

\* the i-th decimal digit, from the left, of v written with n digits
DecimalDigit(v, n, i) == (v \div Pow10(n - i)) % 10

\* C7: for a row of 1 to 10 cells that all match at the accepted threshold, the
\* decoded value is a number, not negative, whose decimal digits are the cells'
\* digits in start-to-end order (the sum of digit_i * 10^(digits-1-i)); it is never
\* wrapped, negative or a fault.
DecodedIsDecimalSum ==
    pc = "done" =>
        /\ result.t = "Number"
        /\ result.v >= 0
        /\ \A i \in 1..Len(segments) :
              DecimalDigit(result.v, Len(segments), i) = segments[i]
        /\ Len(segments) < 10 => result.v < Pow10(Len(segments))

\* a publish pass has just run: at the end of a sampling pass or on "Publish"
PublishPass == lastOp \in {"sample", "publish"}

\* the number of messages of the last pass that carry this topic
Emitted(topic) ==
    LET ms == {m \in BagToSet(outbox) : m.topic = topic}
    IN  BagCardinality([m \in ms |-> CopiesIn(m, outbox)])

TimeRemainingTopic == "laundry-machine/time-remaining"

MarkerTopic(name) == "laundry-machine/" \o name

\* the configured markers carrying this name
Holders(name) == {i \in 1..Len(markers) : markers[i].name = name}

\* values[i], the value the editor shows for marker i, is a non-negative integer
HoldsNat(i) ==
    /\ i <= Len(values)
    /\ values[i].t = "Number"
    /\ values[i].v >= 0

\* some marker named hour and some marker named minute hold non-negative integers
PairingHolds ==
    /\ \E i \in Holders("hour") : HoldsNat(i)
    /\ \E i \in Holders("minute") : HoldsNat(i)

\* C1: in a publish pass where the pairing condition does not hold, no
\* time-remaining message is emitted and every marker named hour or minute (that
\* has a value) is published as its own message laundry-machine/hour or
\* laundry-machine/minute.
UnpairedPublishedIndividually ==
    (PublishPass /\ ~PairingHolds) =>
        /\ Emitted(TimeRemainingTopic) = 0
        /\ \A i \in Holders("hour") \cup Holders("minute") :
              i <= Len(values) => Emitted(MarkerTopic(markers[i].name)) >= 1

\* markers with this name exist and every one of them holds the number n
Holds(name, n) ==
    /\ Holders(name) # {}
    /\ \A i \in Holders(name) : i <= Len(values) /\ values[i] = Number(n)

\* the non-negative integers held by some marker
HeldNats == {values[i].v : i \in {j \in 1..Len(values) : HoldsNat(j)}}

\* C2: in a publish pass where the markers named hour and minute exist and hold
\* the non-negative integers h and m, exactly one time-remaining message is
\* emitted, its payload is the decimal string of (h*60 + m)*60, and no
\* laundry-machine/hour or laundry-machine/minute message is emitted.
AggregatePublished ==
    PublishPass =>
        \A h \in HeldNats, m \in HeldNats :
            (Holds("hour", h) /\ Holds("minute", m)) =>
                /\ Emitted(TimeRemainingTopic) = 1
                /\ CopiesIn(Message(TimeRemainingTopic, ToString((h * 60 + m) * 60)),
                            outbox) = 1
                /\ Emitted(MarkerTopic("hour")) = 0
                /\ Emitted(MarkerTopic("minute")) = 0

\* the stored hour and minute markers read 1 and 30 and 5400 seconds went out
PublishedNinetyMinutes ==
    /\ lastOp = "sample"
    /\ markers = <<HourMarker, MinuteMarker>>
    /\ values = <<Number(1), Number(30)>>
    /\ outbox = SetToBag({Message(TimeRemainingTopic, "5400")})

\* marker i went into the hour/minute aggregate of the last pass
Consumed(i) ==
    /\ Emitted(TimeRemainingTopic) >= 1
    /\ markers[i].name \in {"hour", "minute"}

\* C3: in every publish pass (taken where every configured marker has a value),
\* every name carries as many laundry-machine/<name> messages as there are
\* markers of that name outside the aggregate, and the number of per-marker
\* messages is the number of markers outside the aggregate, shared names included.
OneMessagePerMarker ==
    (PublishPass /\ Len(values) = Len(markers)) =>
        LET unconsumed == {i \in 1..Len(markers) : ~Consumed(i)}
        IN  /\ \A i \in unconsumed :
                  Emitted(MarkerTopic(markers[i].name))
                    = Cardinality({j \in unconsumed : markers[j].name = markers[i].name})
            /\ BagCardinality(outbox) - Emitted(TimeRemainingTopic)
                  = Cardinality(unconsumed)

\* C4: a sampling pass never faults the process, and it leaves a value for every
\* configured marker.
SamplingNeverFaults ==
    /\ lastOp # "panic"
    /\ lastOp = "sample" => Len(values) = Len(markers)

\* the position of the point labelled j (a = 1 .. g = 7) of cell n (0-based)
Labelled(points, n, j) == points[7 * n + j].pos

\* the seven points of cell n lie as the labels say: f-e on the near side and b-c on
\* the far side, each pair one tangent apart; a, g, d across the middle, one
\* tangent apart; the far side one segment length along the direction
CellInLabelOrder(ty, points, n) ==
    LET tangent == VSub(ty.bottom, ty.start)
        direction == VNormalized(VSub(ty.end, ty.start))
        a == Labelled(points, n, 1)
        b == Labelled(points, n, 2)
        c == Labelled(points, n, 3)
        d == Labelled(points, n, 4)
        e == Labelled(points, n, 5)
        f == Labelled(points, n, 6)
        g == Labelled(points, n, 7)
    IN  /\ VSub(e, f) = tangent
        /\ VSub(c, b) = tangent
        /\ VSub(g, a) = tangent
        /\ VSub(d, g) = tangent
        /\ VScale(VAdd(VAdd(b, c), VAdd(e, f)), 1, 4) = g
        /\ VScale(VSub(b, f), 2, 1) = VScale(direction, segment_length_twice(ty), 1)

\* the cells follow one another from start to end: the first begins at start, the
\* last ends at end, and each begins one spacing after the one before
CellsStartToEnd(ty, points) ==
    LET direction == VNormalized(VSub(ty.end, ty.start))
        near(n) == VAdd(Labelled(points, n, 5), Labelled(points, n, 6))
        far(n) == VAdd(Labelled(points, n, 2), Labelled(points, n, 3))
    IN  /\ near(0) = VScale(ty.start, 2, 1)
        /\ far(ty.digits - 1) = VScale(ty.end, 2, 1)
        /\ \A n \in 0..(ty.digits - 2) :
              VSub(near(n + 1), far(n)) = VScale(direction, 2 * ty.spacing, 1)

\* C9: get_points gives one point for a Point shape and 7 * digits points for a
\* SevenSegment shape, cell by cell from start to end and within a cell in the
\* order [a, b, c, d, e, f, g], every point with the shape's size; after a
\* sampling pass the samples of marker i are as many as its points and, for a
\* SevenSegment marker, split into full chunks of 7.
PointsAndSamples ==
    /\ \A i \in 1..Len(markers) :
          LET ty == markers[i].ty
              points == get_points(ty)
          IN  /\ \A k \in 1..Len(points) : points[k].size = ty.size
              /\ ty.kind = "Point" =>
                    /\ Len(points) = 1
                    /\ points[1].pos = ty.pos
              /\ ty.kind = "SevenSegment" =>
                    /\ Len(points) = 7 * ty.digits
                    /\ \A n \in 0..(ty.digits - 1) : CellInLabelOrder(ty, points, n)
                    /\ CellsStartToEnd(ty, points)
    /\ lastOp = "sample" =>
          /\ Len(sampled) = Len(markers)
          /\ \A i \in 1..Len(markers) :
                /\ Len(sampled[i]) = Len(get_points(markers[i].ty))
                /\ markers[i].ty.kind = "SevenSegment" =>
                      \A k \in 1..Len(chunks(sampled[i])) :
                          Len(chunks(sampled[i])[k]) = 7

\* a freshly added seven-segment marker of 3 digits was sampled: 21 samples
SampledThreeDigits ==
    /\ lastOp = "sample"
    /\ \E i \in 1..Len(markers) :
          /\ markers[i].ty = DefaultSevenSegment
          /\ Len(get_points(markers[i].ty)) = 21
          /\ Len(sampled[i]) = 21

\* the integer nearest to p * dim / Scale, halves going up
NearestPixel(p, dim) ==
    CHOOSE n \in 0..dim :
        /\ (2 * n - 1) * Scale <= 2 * p * dim
        /\ 2 * p * dim < (2 * n + 1) * Scale

\* C11: for a point of the unit square and an image of width w >= 1 and height
\* h >= 1, Point::sample reads the pixel at column round(x * w) and row
\* round(y * h), where column < w and row < h: the index row * w + column is
\* inside the buffer and in the intended row.
SampleInsideBuffer ==
    (pc = "done" /\ InUnitSquare(sampler.pos)) =>
        LET column == NearestPixel(sampler.pos[1], buffer.width)
            row == NearestPixel(sampler.pos[2], buffer.height)
        IN  /\ column < buffer.width
            /\ row < buffer.height
            /\ row * buffer.width + column < Len(buffer.pixels)
            /\ result = Pixel(row * buffer.width + column)

\* C12: the stored values stay index-aligned with the marker list: the value kept
\* (and displayed) for marker i is the one decoded from that same marker in the
\* most recent successful sampling pass, and every message published under a
\* marker's name carries the value decoded from a marker of that name in that pass.
ValuesFollowMarkers ==
    /\ \A i \in 1..Min(Len(markers), Len(values)) : origin[i] = i
    /\ PublishPass =>
          \A m \in BagToSet(outbox) :
              m.topic # TimeRemainingTopic =>
                  \E i \in 1..Len(markers) :
                      /\ m.topic = MarkerTopic(markers[i].name)
                      /\ origin[i] \in 1..Len(values)
                      /\ m.payload = to_string_pretty(values[origin[i]])

====
